---- MODULE Spec2Model ----
(***************************************************************************)
(* A model of cards-client's distance field code (src/src/dfield.c):       *)
(* dfield_generate with its row-parallel loop, and the file functions      *)
(* dfield_to_file, dfield_from_file and dfield_data_from_file.             *)
(*                                                                         *)
(* Spec        the generator: calls of dfield_generate, the rows of the    *)
(*             "#pragma omp parallel for" computed in any order.           *)
(* SpecRepeat  the generator with a second call with the same arguments.   *)
(* SpecCodec   the file functions: a file at one path, written by          *)
(*             dfield_to_file or by the environment, read by               *)
(*             dfield_from_file or dfield_data_from_file.                  *)
(* SpecAll     the generator and the file functions, one call at a time.   *)
(* SpecSearch  i * i + j * j of the neighbourhood search, for the spreads  *)
(*             near the limit of the check.                                *)
(***************************************************************************)
EXTENDS Integers, Sequences, FiniteSets, TLC

(***************************************************************************)
(* Bounds of the model.                                                    *)
(***************************************************************************)
\* the input grids have at most MaxInCells bytes
MaxInCells == 4
MaxOutW == 3
MaxOutH == 2
MaxSpread == 3
\* the fields written and the files read have at most MaxFieldCells data bytes
MaxFieldCells == 2
\* the largest value of errno at a call of dfield_result_string
MaxErrno == 8
\* the largest delta of a waypoint, the number of waypoints enqueued, and
\* the value the tick counter of the camera is followed up to
MaxDelta == 2
MaxWaypoints == 3
MaxTick == 5

(***************************************************************************)
(* Program constants.                                                      *)
(***************************************************************************)
INT32_MAX == 2147483647
INT32_MIN == -2147483647 - 1
\* the largest spread the validation accepts (dfield.c:223)
SpreadLimit == 32768
\* the clamp of the quantised value (dfield.c:275-280)
ClampMax == 127
\* (spread * M_SQRT2 * 128)^2 / spread^2 = 2 * 128 * 128: the square of the
\* normalisation divisor per unit of spread (dfield.c:272)
DivisorSq == 32768
\* a cell of the malloc'ed output that no iteration has assigned yet; outside
\* the range of int8_t (dfield.c:227)
Uninit == 128

\* result codes of enum dfield_result, by name
OKAY == "OKAY"
ERROR_ERRNO == "ERROR_ERRNO"
ERROR_READ_SIZE == "ERROR_READ_SIZE"
ERROR_MAGIC == "ERROR_MAGIC"
ERROR_BAD_SIZE == "ERROR_BAD_SIZE"
ERROR_WRITE_SIZE == "ERROR_WRITE_SIZE"
ERROR_BAD_INPUT_SIZE == "ERROR_BAD_INPUT_SIZE"
ERROR_BAD_OUTPUT_SIZE == "ERROR_BAD_OUTPUT_SIZE"
ERROR_BAD_SPREAD == "ERROR_BAD_SPREAD"
\* no call has returned yet
NoResult == "none"

\* values of the bytes of an input grid: 0 is black, anything else is white
InputBytes == {0, 255}

VARIABLES
    \* ---- dfield_generate ----
    pc,             \* "idle" | "running" | "done": where the call is
    data,           \* the input buffer, [0 .. input_width*input_height-1 -> byte]
    beyond,         \* the memory after the input buffer, by index, where read
    input_width, input_height, output_width, output_height, spread,
    lrint_oor,      \* what this build's lrint yields for +inf and for -inf
    field,          \* the malloc'ed output buffer, by index
    writes,         \* per cell of field, how many times it was assigned
    writer,         \* per cell of field, the row iteration that assigned it last
    sampled,        \* per cell of field, the <<x_in, y_in>> its iteration sampled
    rows_done,      \* the iterations y of the parallel loop that have run
    gres,           \* the value dfield_generate returned
    dfield_out,     \* the caller's struct dfield that *dfield_out names
    first,          \* the outcome of the first of two identical calls
    \* ---- the codec ----
    file,           \* the bytes of the file at the path, a sequence of 0 .. 255
    origin,         \* "none" | "env" | "to_file": who wrote the file last
    cop,            \* "none" | "put" | "write" | "read": the last codec step
    wfield,         \* the struct dfield the last dfield_to_file was given
    wres,           \* what the last dfield_to_file returned
    wopened,        \* whether the fopen of the last dfield_to_file succeeded
    ropened,        \* whether the fopen of the last dfield_from_file succeeded
    rres,           \* what the last dfield_from_file returned
    loaded,         \* the caller's struct dfield that dfield_from_file stores into
    \* ---- dfield_data_from_file ----
    dwidth, dheight, \* the width and height the last dfield_data_from_file was given
    dopened,        \* whether its fopen succeeded
    dres,           \* what it returned
    data_out,       \* the caller's buffer pointer that *data_out names, as the
                    \* bytes it points to
    track,          \* what the last codec call did with its file handle and its
                    \* buffer: how many fopen, fclose, malloc, free, and how
                    \* many buffers it handed to the caller
    \* ---- the distance of the neighbourhood search ----
    search,         \* the spread and the offsets i, j of an evaluation of
                    \* i * i + j * j, and whether it left the range of int32_t
    \* ---- dfield_result_string ----
    strq,           \* the last call: its argument, errno, the index it used
                    \* into the table of strings and what it returned
    \* ---- the camera queue of a scene (scene.c) ----
    cam,            \* scene->queue, the static camera_tick of soho_step,
                    \* scene->previous_camera, and what the last soho_step did
    \* ---- the renderer (renderer.c) ----
    renderer,       \* the static struct renderer: per pointer or handle whether
                    \* it is null, names a live object, or names a freed one,
                    \* and its flags
    rtrace          \* the calls made: the last one and the one before, what
                    \* renderer_init returned, the frees and uses of freed
                    \* objects so far, where renderer_loop is

gen_vars == <<pc, data, beyond, input_width, input_height, output_width,
              output_height, spread, lrint_oor, field, writes, writer,
              sampled, rows_done, gres, dfield_out, first>>

raw_vars == <<dwidth, dheight, dopened, dres, data_out>>

codec_vars == <<file, origin, cop, wfield, wres, wopened, ropened, rres, loaded,
               raw_vars, track>>

\* the state of the parts other than the generator, the codec and the search
string_vars == <<strq>>
scene_vars == <<cam>>
renderer_vars == <<renderer, rtrace>>
other_vars == <<string_vars, scene_vars, renderer_vars>>

\* the state of dfield.c's functions
dfield_vars == <<gen_vars, codec_vars, search, string_vars>>

vars == <<gen_vars, codec_vars, search, other_vars>>

\* the caller's struct before any call stored into it
Unset == [width |-> 0, height |-> 0, data |-> <<>>]
\* the caller's buffer pointer before any call stored into it
NoBuffer == <<"null">>
NoFirst == [res |-> NoResult, out |-> Unset]

(***************************************************************************)
(* dfield_generate: the argument checks.                                   *)
(***************************************************************************)
\* the checks with the spread checked first
Validate_SpreadFirst(iw, ih, ow, oh, sp) ==
    IF sp < 0 \/ sp > SpreadLimit THEN ERROR_BAD_SPREAD
    ELSE IF iw <= 0 \/ ih <= 0 THEN ERROR_BAD_INPUT_SIZE
    ELSE IF ow <= 0 \/ oh <= 0 THEN ERROR_BAD_OUTPUT_SIZE
    ELSE OKAY

\* the checks with the spread checked as the error string words it,
\* "spread is invalid (n <= 0 or n > 32768)"
Validate_PositiveSpread(iw, ih, ow, oh, sp) ==
    IF iw <= 0 \/ ih <= 0 THEN ERROR_BAD_INPUT_SIZE
    ELSE IF ow <= 0 \/ oh <= 0 THEN ERROR_BAD_OUTPUT_SIZE
    ELSE IF sp <= 0 \/ sp > SpreadLimit THEN ERROR_BAD_SPREAD
    ELSE OKAY

Validate(iw, ih, ow, oh, sp) ==
    IF iw <= 0 \/ ih <= 0 THEN ERROR_BAD_INPUT_SIZE
    ELSE IF ow <= 0 \/ oh <= 0 THEN ERROR_BAD_OUTPUT_SIZE
    ELSE IF sp < 0 \/ sp > SpreadLimit THEN ERROR_BAD_SPREAD
    ELSE OKAY

(***************************************************************************)
(* lrint in the default rounding mode (to nearest, ties to even) of the    *)
(* exact quotient n / d, n >= 0, d > 0.  x * x_scale is computed in        *)
(* double; for the sizes of this model the double product rounds exactly   *)
(* as the exact quotient x * input_width / output_width does.              *)
(***************************************************************************)
Lrint_HalfAway(n, d) ==
    LET q == n \div d
        r == n % d
    IN  IF 2 * r < d THEN q ELSE q + 1

Lrint(n, d) ==
    LET q == n \div d
        r == n % d
    IN  IF 2 * r < d THEN q
        ELSE IF 2 * r > d THEN q + 1
        ELSE IF q % 2 = 0 THEN q ELSE q + 1

\* the sample taken at the centre of the output pixel, kept inside the row
XIn_Centre(x) ==
    LET c == Lrint((2 * x + 1) * input_width, 2 * output_width)
    IN  IF c < input_width THEN c ELSE input_width - 1

\* int32_t x_in = (int32_t)lrint(x * x_scale), x_scale = input_width / output_width
XIn(x) == Lrint(x * input_width, output_width)
\* int32_t y_in = (int32_t)lrint(y * y_scale), y_scale = input_height / output_height
YIn(y) == Lrint(y * input_height, output_height)

\* the index data[y_in * input_width + x_in] of the sample of output pixel (x, y)
SampleIndex(x, y) == YIn(y) * input_width + XIn(x)

\* the number of bytes of the input buffer
InputLen == input_width * input_height

\* data[k] as the machine reads it: inside the buffer its byte, after the
\* buffer whatever the memory there holds
ReadData(k) == IF k < InputLen THEN data[k] ELSE beyond[k]

(***************************************************************************)
(* The neighbourhood search of one output pixel (dfield.c:239-264).  c is  *)
(* the pixel's context [x_in, y_in, state].                                *)
(***************************************************************************)
\* the loop over j, from j on, in row offset i; returns minimum
RECURSIVE ColumnLoop(_, _, _, _)
ColumnLoop(c, i, j, minimum) ==
    IF j > spread THEN minimum
    ELSE LET x_in2 == c.x_in + j IN
         IF x_in2 < 0 THEN ColumnLoop(c, i, j + 1, minimum)          \* continue
         ELSE IF x_in2 >= input_width THEN minimum                   \* break
         ELSE LET state2 == data[(c.y_in + i) * input_width + x_in2] # 0
                  dsq == i * i + j * j
              IN  ColumnLoop(c, i, j + 1,
                      IF state2 # c.state /\ dsq < minimum THEN dsq ELSE minimum)

\* the loop over i that stops at a row above the grid as it does at one below
RECURSIVE RowLoop_StopOnNegative(_, _, _)
RowLoop_StopOnNegative(c, i, minimum) ==
    IF i > spread THEN minimum
    ELSE LET y_in2 == c.y_in + i IN
         IF y_in2 < 0 \/ y_in2 >= input_height THEN minimum
         ELSE RowLoop_StopOnNegative(c, i + 1, ColumnLoop(c, i, -spread, minimum))

\* the loop over i, from i on; returns minimum
RECURSIVE RowLoop(_, _, _)
RowLoop(c, i, minimum) ==
    IF i > spread THEN minimum
    ELSE LET y_in2 == c.y_in + i IN
         IF y_in2 < 0 THEN RowLoop(c, i + 1, minimum)                \* continue
         ELSE IF y_in2 >= input_height THEN minimum                  \* break
         ELSE RowLoop(c, i + 1, ColumnLoop(c, i, -spread, minimum))

\* int32_t minimum = INT32_MAX; for (i ...) for (j ...) ...
Minimum(c) == RowLoop(c, -spread, INT32_MAX)

(***************************************************************************)
(* The quantisation (dfield.c:266-282).                                    *)
(***************************************************************************)
\* the largest t in lo..hi with t * t <= q (lo * lo <= q)
RECURSIVE ISqrt(_, _, _)
ISqrt(q, lo, hi) ==
    IF lo = hi THEN lo
    ELSE LET mid == (lo + hi + 1) \div 2 IN
         IF mid * mid <= q THEN ISqrt(q, mid, hi) ELSE ISqrt(q, lo, mid - 1)

\* the quotient rounded up to the next integer
Normalized_Ceil(minimum) ==
    IF minimum = 0 THEN 0
    ELSE ISqrt((minimum - 1) \div (DivisorSq * spread * spread), 0, 256) + 1

\* lrint(sqrt(minimum) / (spread * M_SQRT2 * 128)) for spread > 0: the integer
\* k nearest to sqrt(minimum / (DivisorSq * spread^2)).  k - 1/2 <= that root
\* iff (2k - 1)^2 * (DivisorSq / 4) * spread^2 <= minimum, so with
\* t = floor(sqrt(minimum div (DivisorSq / 4 * spread^2))), k = (t + 1) div 2.
\* (A tie needs minimum = (2k-1)^2 * 8192 * spread^2, which no minimum the
\* search returns equals: those are at most 2 * spread^2, or INT32_MAX, odd.)
Normalized(minimum) ==
    LET q == minimum \div ((DivisorSq \div 4) * spread * spread)
    IN  (ISqrt(q, 0, 512) + 1) \div 2

\* the value of (int32_t)lrint(minimum_g) for the pixel: minimum_g is
\* sqrt(minimum), negated for a white sample, divided by the divisor; with
\* spread = 0 the divisor is 0.0, minimum_g is +inf or -inf, and lrint of an
\* infinity is whatever the build yields
LrintResult(state, minimum) ==
    IF spread = 0
    THEN IF state THEN lrint_oor.neg ELSE lrint_oor.pos
    ELSE IF state THEN -Normalized(minimum) ELSE Normalized(minimum)

\* the clamp to the whole range of int8_t
Clamp_Int8Range(result) ==
    IF result > ClampMax THEN ClampMax
    ELSE IF result < -ClampMax - 1 THEN -ClampMax - 1
    ELSE result

\* if (result > 127) result = 127; if (result < -127) result = -127;
Clamp(result) ==
    IF result > ClampMax THEN ClampMax
    ELSE IF result < -ClampMax THEN -ClampMax
    ELSE result

\* bool state = data[y_in * input_width + x_in] != 0
State(x, y) == ReadData(SampleIndex(x, y)) # 0

\* the value the body of the loops stores for output pixel (x, y)
Pixel(x, y) ==
    LET c == [x_in |-> XIn(x), y_in |-> YIn(y), state |-> State(x, y)]
    IN  Clamp(LrintResult(c.state, Minimum(c)))

(***************************************************************************)
(* The inputs the model draws.                                             *)
(***************************************************************************)
\* the sizes: the small ones, with 0 and -1, and the 10 of the documented
\* examples (a call with sizes beyond the bounds is drawn only when the
\* checks reject it)
InWidths == (-1 .. MaxInCells) \cup {10}
InHeights == (-1 .. MaxInCells) \cup {10}
OutWidths == (-1 .. MaxOutW) \cup {10}
OutHeights == (-1 .. MaxOutH) \cup {10}
\* the spreads: the small ones, with -1 and two that exceed the limit
Spreads == (-1 .. MaxSpread) \cup {SpreadLimit + 1, 40000}

\* the buffers a caller passes for a grid of iw * ih bytes
\* the calls within the bounds of the model
InBounds(iw, ih, ow, oh, sp) ==
    iw * ih <= MaxInCells /\ ow <= MaxOutW /\ oh <= MaxOutH /\ sp <= MaxSpread

\* the buffers a caller passes; a rejected call reads none of its buffer
Grids(iw, ih, ow, oh, sp) ==
    IF Validate(iw, ih, ow, oh, sp) # OKAY THEN {<< >>}
    ELSE IF InBounds(iw, ih, ow, oh, sp) THEN [0 .. iw * ih - 1 -> InputBytes]
    ELSE {}

\* the indices after the buffer that the samples of an ow * oh output read
BeyondIndices(iw, ih, ow, oh) ==
    {k \in {Lrint(y * ih, oh) * iw + Lrint(x * iw, ow) :
                x \in 0 .. ow - 1, y \in 0 .. oh - 1} : k >= iw * ih}

\* what the memory after the buffer may hold where a call reads it
Beyonds(iw, ih, ow, oh, sp) ==
    IF Validate(iw, ih, ow, oh, sp) = OKAY
    THEN [BeyondIndices(iw, ih, ow, oh) -> InputBytes]
    ELSE {<< >>}

\* (int32_t)lrint(+inf) and (int32_t)lrint(-inf) of the builds: x86-64 (the
\* integer indefinite LONG_MIN, truncated to 0), AArch64 (saturated to
\* LONG_MAX and LONG_MIN, truncated to -1 and 0), a 32-bit long with the
\* integer indefinite, a 32-bit long saturating
LrintOfInfinity ==
    { [pos |-> 0, neg |-> 0],
      [pos |-> -1, neg |-> 0],
      [pos |-> INT32_MIN, neg |-> INT32_MIN],
      [pos |-> INT32_MAX, neg |-> INT32_MIN] }

\* only a call that divides by zero consults lrint_oor
LrintChoices(iw, ih, ow, oh, sp) ==
    IF Validate(iw, ih, ow, oh, sp) = OKAY /\ sp = 0
    THEN LrintOfInfinity
    ELSE {[pos |-> 0, neg |-> 0]}

(***************************************************************************)
(* dfield_generate as steps: the call up to the parallel loop, one         *)
(* iteration y of the parallel loop, and the return after the loop.        *)
(***************************************************************************)
Cells == 0 .. output_width * output_height - 1
Rows == 0 .. output_height - 1

\* the conversion (int8_t)v of an int32_t
ToInt8(v) == ((v + 128) % 256) - 128

\* field[k] = (int8_t)v by iteration y for pixel (x, y), on the buffer and
\* its bookkeeping
Store(m, k, v, x, y) ==
    [field |-> [m.field EXCEPT ![k] = ToInt8(v)],
     writes |-> [m.writes EXCEPT ![k] = @ + 1],
     writer |-> [m.writer EXCEPT ![k] = y],
     sampled |-> [m.sampled EXCEPT ![k] = <<XIn(x), YIn(y)>>]]

\* the cell index with the stride of the other dimension
CellIndex_HeightStride(x, y) == y * output_height + x

\* the cell index without the row
CellIndex_NoStride(x, y) == x

\* field[y * output_width + x] = (int8_t)result: the cell pixel (x, y) is stored in
CellIndex(x, y) == y * output_width + x

\* for (int32_t x = 0; x < output_width; x++) { ... } of iteration y, from x on
RECURSIVE XLoop(_, _, _)
XLoop(m, y, x) ==
    IF x >= output_width THEN m
    ELSE XLoop(Store(m, CellIndex(x, y), Pixel(x, y), x, y), y, x + 1)

\* the call: the checks (an error returns at once and stores nothing), then
\* malloc of the output
Enter(iw, ih, ow, oh, sp, d, b, l) ==
    LET v == Validate(iw, ih, ow, oh, sp) IN
    /\ data' = d
    /\ beyond' = b
    /\ input_width' = iw
    /\ input_height' = ih
    /\ output_width' = ow
    /\ output_height' = oh
    /\ spread' = sp
    /\ lrint_oor' = l
    /\ rows_done' = {}
    /\ IF v = OKAY
       THEN /\ pc' = "running"
            /\ gres' = NoResult
            /\ field' = [k \in 0 .. ow * oh - 1 |-> Uninit]
            /\ writes' = [k \in 0 .. ow * oh - 1 |-> 0]
            /\ writer' = [k \in 0 .. ow * oh - 1 |-> -1]
            /\ sampled' = [k \in 0 .. ow * oh - 1 |-> <<-1, -1>>]
       ELSE /\ pc' = "done"
            /\ gres' = v
            /\ field' = << >>
            /\ writes' = << >>
            /\ writer' = << >>
            /\ sampled' = << >>

GenCall ==
    /\ pc = "idle"
    /\ \E iw \in InWidths, ih \in InHeights, ow \in OutWidths, oh \in OutHeights,
          sp \in Spreads :
         \E d \in Grids(iw, ih, ow, oh, sp), b \in Beyonds(iw, ih, ow, oh, sp),
            l \in LrintChoices(iw, ih, ow, oh, sp) :
            Enter(iw, ih, ow, oh, sp, d, b, l)
    /\ UNCHANGED <<dfield_out, first>>
    /\ UNCHANGED <<codec_vars, search, other_vars>>

\* one iteration y of "#pragma omp parallel for": the iterations run on the
\* workers of the team in any order
GenRow ==
    /\ pc = "running"
    /\ \E y \in Rows \ rows_done :
         LET m == XLoop([field |-> field, writes |-> writes, writer |-> writer,
                         sampled |-> sampled], y, 0)
         IN  /\ field' = m.field
             /\ writes' = m.writes
             /\ writer' = m.writer
             /\ sampled' = m.sampled
             /\ rows_done' = rows_done \cup {y}
    /\ UNCHANGED <<pc, data, beyond, input_width, input_height, output_width,
                   output_height, spread, lrint_oor, gres, dfield_out, first>>
    /\ UNCHANGED <<codec_vars, search, other_vars>>

\* after the loop (its implicit barrier): *dfield_out = ...; return OKAY
GenReturn ==
    /\ pc = "running"
    /\ rows_done = Rows
    /\ dfield_out' = [width |-> output_width, height |-> output_height, data |-> field]
    /\ gres' = OKAY
    /\ pc' = "done"
    /\ UNCHANGED <<data, beyond, input_width, input_height, output_width,
                   output_height, spread, lrint_oor, field, writes, writer,
                   sampled, rows_done, first>>
    /\ UNCHANGED <<codec_vars, search, other_vars>>

\* the caller calls again with the same buffer, sizes and spread, in the same
\* build; the memory after the buffer is not the caller's and may have changed
GenRepeat ==
    /\ pc = "done"
    /\ first = NoFirst
    /\ first' = [res |-> gres, out |-> dfield_out]
    /\ \E b \in Beyonds(input_width, input_height, output_width, output_height, spread) :
         Enter(input_width, input_height, output_width, output_height, spread,
               data, b, lrint_oor)
    /\ UNCHANGED dfield_out
    /\ UNCHANGED <<codec_vars, search, other_vars>>

\* the call of the documented scenario: the 2 x 2 grid [[0, 0], [0, 255]]
\* generated at 4 x 4 with spread 2
ExampleCall ==
    [iw |-> 2, ih |-> 2, ow |-> 4, oh |-> 4, sp |-> 2,
     data |-> [k \in 0 .. 3 |-> IF k = 3 THEN 255 ELSE 0]]

GenExample ==
    /\ pc = "idle"
    /\ LET e == ExampleCall IN
       \E b \in Beyonds(e.iw, e.ih, e.ow, e.oh, e.sp),
          l \in LrintChoices(e.iw, e.ih, e.ow, e.oh, e.sp) :
            Enter(e.iw, e.ih, e.ow, e.oh, e.sp, e.data, b, l)
    /\ UNCHANGED <<dfield_out, first>>
    /\ UNCHANGED <<codec_vars, search, other_vars>>

\* the caller is done with the result (it frees the field)
GenRelease ==
    /\ pc = "done"
    /\ pc' = "idle"
    /\ data' = << >>
    /\ beyond' = << >>
    /\ input_width' = 0
    /\ input_height' = 0
    /\ output_width' = 0
    /\ output_height' = 0
    /\ spread' = 0
    /\ lrint_oor' = [pos |-> 0, neg |-> 0]
    /\ field' = << >>
    /\ writes' = << >>
    /\ writer' = << >>
    /\ sampled' = << >>
    /\ rows_done' = {}
    /\ gres' = NoResult
    /\ dfield_out' = Unset
    /\ first' = NoFirst
    /\ UNCHANGED <<codec_vars, search, other_vars>>

GenInit ==
    /\ pc = "idle"
    /\ data = << >>
    /\ beyond = << >>
    /\ input_width = 0
    /\ input_height = 0
    /\ output_width = 0
    /\ output_height = 0
    /\ spread = 0
    /\ lrint_oor = [pos |-> 0, neg |-> 0]
    /\ field = << >>
    /\ writes = << >>
    /\ writer = << >>
    /\ sampled = << >>
    /\ rows_done = {}
    /\ gres = NoResult
    /\ dfield_out = Unset
    /\ first = NoFirst

(***************************************************************************)
(* The codec (dfield.c:71-123, 163-195).  A file is the sequence of its    *)
(* bytes, 0 .. 255; the data of a struct dfield is a function from         *)
(* 0 .. width*height-1 to int8_t.                                          *)
(***************************************************************************)
\* constexpr char magic[] = { 'D', 'F' };
Magic == <<68, 70>>
\* sizeof(magic)
SizeofMagic == Len(Magic)
\* sizeof(int32_t): sizeof(*size), sizeof(dfield->width), sizeof(dfield->height)
SizeofInt32 == 4
\* sizeof(size) of int32_t size[2]
SizeofSize == 2 * SizeofInt32
\* the size of the items of fread(size, 2, sizeof(*size), dfield_file)
SizeItem == 2
\* dfield_to_file ended in a failed assert: the process aborted, no result
ABORT == "ABORT"

Min(a, b) == IF a < b THEN a ELSE b
Take(seq, n) == SubSeq(seq, 1, Min(n, Len(seq)))
Drop(seq, n) == SubSeq(seq, n + 1, Len(seq))

\* the bytes of an int8_t and of an int32_t in memory (two's complement, the
\* least significant byte first), and back
ToByte(v) == v % 256
FromByte(b) == IF b >= 128 THEN b - 256 ELSE b
Int32Bytes(v) ==
    <<v % 256, (v \div 256) % 256, (v \div 65536) % 256, (v \div 16777216) % 256>>
Int32Of(b) == b[1] + 256 * b[2] + 65536 * b[3] + 16777216 * FromByte(b[4])

\* the bytes of the data of a struct dfield, in order
DataBytes(f) == [i \in 1 .. f.width * f.height |-> ToByte(f.data[i - 1])]

\* fread(ptr, size, nmemb, stream) with avail bytes left in the file: the
\* number of whole items read
Fread(avail, size, nmemb) == Min(nmemb, avail \div size)

\* the magic check that looks at the first byte only
MagicMatches_FirstOnly(magic_in) == magic_in[1] = Magic[1]

\* for (i ...) if (magic_in[i] != magic[i]) { ... return ERROR_MAGIC; }
MagicMatches(magic_in) == \A i \in 1 .. SizeofMagic : magic_in[i] = Magic[i]

\* dfield_from_file with a short read of the magic taken for a bad magic
FromFile_ShortMagicIsBadMagic(bytes) ==
    LET fail(r) == [res |-> r, out |-> Unset]
        rd1 == Fread(Len(bytes), 1, SizeofMagic)
    IN
    IF rd1 # SizeofMagic THEN fail(ERROR_MAGIC)
    ELSE IF ~MagicMatches(Take(bytes, SizeofMagic)) THEN fail(ERROR_MAGIC)
    ELSE
    LET rest == Drop(bytes, SizeofMagic)
        rd2 == Fread(Len(rest), SizeItem, SizeofInt32)
    IN
    IF rd2 # SizeofSize THEN fail(ERROR_READ_SIZE)
    ELSE
    LET size0 == Int32Of(SubSeq(rest, 1, SizeofInt32))
        size1 == Int32Of(SubSeq(rest, SizeofInt32 + 1, SizeofSize))
    IN
    IF size0 <= 0 \/ size1 <= 0 THEN fail(ERROR_BAD_SIZE)
    ELSE
    LET body == Drop(rest, rd2 * SizeItem)
        rd3 == Fread(Len(body), 1, size0 * size1)
    IN
    IF rd3 # size0 * size1 THEN fail(ERROR_READ_SIZE)
    ELSE [res |-> OKAY,
          out |-> [width |-> size0, height |-> size1,
                   data |-> [k \in 0 .. size0 * size1 - 1 |-> FromByte(body[k + 1])]]]

\* dfield_from_file once fopen has succeeded, on a file of these bytes: the
\* result, and the struct stored through dfield_out when it is OKAY
FromFile(bytes) ==
    LET fail(r) == [res |-> r, out |-> Unset]
        rd1 == Fread(Len(bytes), 1, SizeofMagic)
    IN
    IF rd1 # SizeofMagic THEN fail(ERROR_READ_SIZE)
    ELSE IF ~MagicMatches(Take(bytes, SizeofMagic)) THEN fail(ERROR_MAGIC)
    ELSE
    LET rest == Drop(bytes, SizeofMagic)
        \* rd = fread(size, 2, sizeof(*size), dfield_file)
        rd2 == Fread(Len(rest), SizeItem, SizeofInt32)
    IN
    IF rd2 # SizeofSize THEN fail(ERROR_READ_SIZE)
    ELSE
    LET size0 == Int32Of(SubSeq(rest, 1, SizeofInt32))
        size1 == Int32Of(SubSeq(rest, SizeofInt32 + 1, SizeofSize))
    IN
    IF size0 <= 0 \/ size1 <= 0 THEN fail(ERROR_BAD_SIZE)
    ELSE
    LET body == Drop(rest, rd2 * SizeItem)
        rd3 == Fread(Len(body), 1, size0 * size1)
    IN
    IF rd3 # size0 * size1 THEN fail(ERROR_READ_SIZE)
    ELSE [res |-> OKAY,
          out |-> [width |-> size0, height |-> size1,
                   data |-> [k \in 0 .. size0 * size1 - 1 |-> FromByte(body[k + 1])]]]

\* the asserts with the height forgotten
AssertHolds_WidthOnly(f) == f.width > 0

\* assert(dfield->width > 0); assert(dfield->height > 0);
AssertHolds(f) == f.width > 0 /\ f.height > 0

\* dfield_to_file once fopen has succeeded, the four fwrite calls writing
\* n1, n2, n3 and nd bytes: the result and the bytes of the file
ToFile(f, n1, n2, n3, nd) ==
    LET header == Take(Magic, n1) \o Take(Int32Bytes(f.width), n2)
                      \o Take(Int32Bytes(f.height), n3)
        rd == n1 + n2 + n3
    IN
    IF rd # SizeofMagic + SizeofInt32 + SizeofInt32
    THEN [res |-> ERROR_WRITE_SIZE, bytes |-> header]
    ELSE [res |-> IF nd # f.width * f.height THEN ERROR_WRITE_SIZE ELSE OKAY,
          bytes |-> header \o Take(DataBytes(f), nd)]

\* what dfield_data_from_file leaves: its result and, when it stores through
\* data_out, the buffer stored
RawFailed(r) == [res |-> r, stored |-> FALSE, out |-> NoBuffer]
RawBuffer(bytes, size, rd) ==
    [k \in 0 .. size - 1 |-> IF k < rd THEN bytes[k + 1] ELSE Uninit]

\* dfield_data_from_file with the magic of a dfield file checked first
DataFromFile_MagicChecked(bytes, width, height) ==
    IF Len(bytes) < SizeofMagic \/ ~MagicMatches(Take(bytes, SizeofMagic))
    THEN {RawFailed(ERROR_MAGIC)}
    ELSE IF width * height < 0 THEN {RawFailed(ERROR_READ_SIZE)}
    ELSE LET size == width * height
             rd == Fread(Len(bytes), 1, size)
         IN  IF rd # size THEN {RawFailed(ERROR_READ_SIZE)}
             ELSE {[res |-> OKAY, stored |-> TRUE, out |-> RawBuffer(bytes, size, rd)]}

\* dfield_data_from_file with *data_out = data ahead of the check of rd
DataFromFile_StoreFirst(bytes, width, height) ==
    IF width * height < 0 THEN {RawFailed(ERROR_READ_SIZE)}
    ELSE LET size == width * height
             rd == Fread(Len(bytes), 1, size)
         IN  {[res |-> IF rd # size THEN ERROR_READ_SIZE ELSE OKAY,
               stored |-> TRUE, out |-> RawBuffer(bytes, size, rd)]}

\* dfield_data_from_file once fopen has succeeded, on a file of these bytes:
\* the outcomes it can have.  size = (size_t)width * (size_t)height is
\* width * height when that is not negative (also for two negative factors,
\* modulo 2^64); when it is negative size is 2^64 + width * height,
\* malloc(size) yields a null pointer and fread(NULL, 1, size, raw_file)
\* either reads nothing and returns less than size or, the file holding
\* bytes, stores through the null pointer
DataFromFile(bytes, width, height) ==
    IF width * height < 0
    THEN {RawFailed(ERROR_READ_SIZE)}
         \cup (IF Len(bytes) > 0 THEN {RawFailed(ABORT)} ELSE {})
    ELSE LET size == width * height
             rd == Fread(Len(bytes), 1, size)
         IN  IF rd # size THEN {RawFailed(ERROR_READ_SIZE)}
             ELSE {[res |-> OKAY, stored |-> TRUE, out |-> RawBuffer(bytes, size, rd)]}

\* no call yet: nothing opened, nothing allocated
NoTrack == [fopen |-> 0, fclose |-> 0, malloc |-> 0, free |-> 0, handed |-> 0]

\* the handle of a call whose fopen succeeded (or not) and that returned (or
\* died before its fclose): each return path after fopen has one fclose
HandleTrack(opened, returned) ==
    [NoTrack EXCEPT !.fopen = IF opened THEN 1 ELSE 0,
                    !.fclose = IF opened /\ returned THEN 1 ELSE 0]

\* dfield_from_file on these bytes gets to int8_t * buffer = malloc(...): the
\* magic and the two sizes were read and the sizes are positive
FromFileAllocates(bytes) ==
    /\ Fread(Len(bytes), 1, SizeofMagic) = SizeofMagic
    /\ MagicMatches(Take(bytes, SizeofMagic))
    /\ LET rest == Drop(bytes, SizeofMagic) IN
       /\ Fread(Len(rest), SizeItem, SizeofInt32) = SizeofSize
       /\ Int32Of(SubSeq(rest, 1, SizeofInt32)) > 0
       /\ Int32Of(SubSeq(rest, SizeofInt32 + 1, SizeofSize)) > 0

\* dfield_from_file: fopen, an fclose on each path, the malloc of the buffer,
\* which is stored in *dfield_out on OKAY; there is no free in dfield.c
FromFileTrack(opened, bytes, r) ==
    [HandleTrack(opened, TRUE) EXCEPT
        !.malloc = IF opened /\ FromFileAllocates(bytes) THEN 1 ELSE 0,
        !.handed = IF opened /\ r.res = OKAY THEN 1 ELSE 0]

\* dfield_data_from_file: fopen, malloc(size) (a null pointer when size is
\* 2^64 + width * height), fread, fclose, then the check of rd, which
\* returns without a free, and *data_out = data
DataFromFileTrack(opened, width, height, r) ==
    [HandleTrack(opened, r.res # ABORT) EXCEPT
        !.malloc = IF opened /\ width * height >= 0 THEN 1 ELSE 0,
        !.handed = IF opened /\ r.stored THEN 1 ELSE 0]

\* dfield_to_file: fopen and an fclose on each path, no buffer
ToFileTrack(opened) == HandleTrack(opened, TRUE)

\* the width and height a caller passes to dfield_data_from_file
RawWidths == -1 .. MaxFieldCells
RawHeights == {-1, 1}

\* the values of the data of the fields written
Int8Inputs == {-128, 127}
\* the fields a caller passes to dfield_to_file
FieldInputs ==
    {[width |-> w, height |-> h, data |-> d] :
        w \in -1 .. MaxFieldCells, h \in -1 .. MaxFieldCells,
        d \in UNION {[0 .. n - 1 -> Int8Inputs] : n \in 0 .. MaxFieldCells}}
\* those whose data has width * height cells (none when that is not positive)
Fields ==
    {f \in FieldInputs :
        DOMAIN f.data = 0 .. (IF f.width > 0 /\ f.height > 0
                              THEN f.width * f.height - 1 ELSE -1)}

\* the files the environment puts at the path: two bytes where the magic
\* goes, two int32_t where the sizes go, data bytes, cut at any length
FileInputs ==
    LET whole == {<<a, b>> \o Int32Bytes(w) \o Int32Bytes(h) \o d :
                     a \in {68, 0}, b \in {70, 0},
                     w \in -1 .. MaxFieldCells, h \in -1 .. MaxFieldCells,
                     d \in UNION {[1 .. n -> {128}] : n \in 0 .. MaxFieldCells + 1}}
    IN  whole \cup {Take(b, n) : b \in whole, n \in 0 .. SizeofMagic + SizeofSize}

\* fopen(path, "wb") truncates the file; fwrite puts the bytes it takes in
\* the stream's buffer and fclose writes the buffer out, which fails (the
\* disk is full, an I/O error) after any number of the bytes
FlushCounts(bytes) == 0 .. Len(bytes)

\* something other than this program creates the file
EnvPutFile ==
    /\ origin = "none"
    /\ cop = "none"
    /\ \E b \in FileInputs : file' = b
    /\ origin' = "env"
    /\ cop' = "put"
    /\ UNCHANGED <<wfield, wres, wopened, ropened, rres, loaded, raw_vars, track>>
    /\ UNCHANGED <<gen_vars, search, other_vars>>

\* dfield_to_file(path, &f), where there is no file yet or over the file of
\* a one-cell field that an earlier dfield_to_file reported written
DfieldToFile ==
    /\ \/ cop = "none"
       \/ cop = "write" /\ wres = OKAY /\ wfield.width * wfield.height = 1
    /\ \E f \in Fields :
         /\ wfield' = f
         /\ IF ~AssertHolds(f)
            THEN \* the failed assert aborts the process before fopen
                 /\ wres' = ABORT
                 /\ wopened' = FALSE
                 /\ track' = NoTrack
                 /\ UNCHANGED <<file, origin>>
            ELSE \E opened \in BOOLEAN :
                 /\ wopened' = opened
                 /\ track' = ToFileTrack(opened)
                 /\ IF ~opened
                    THEN /\ wres' = ERROR_ERRNO
                         /\ UNCHANGED <<file, origin>>
                    ELSE \E n1 \in 0 .. SizeofMagic, n2 \in 0 .. SizeofInt32,
                            n3 \in 0 .. SizeofInt32 :
                         \E nd \in IF n1 + n2 + n3 = SizeofMagic + SizeofSize
                                    THEN 0 .. f.width * f.height ELSE {0} :
                            LET r == ToFile(f, n1, n2, n3, nd) IN
                            \* fclose(dfield_file), its result not looked at:
                            \* of the bytes fwrite took, nf reach the file
                            \E nf \in FlushCounts(r.bytes) :
                            /\ wres' = r.res
                            /\ file' = Take(r.bytes, nf)
                            /\ origin' = "to_file"
    /\ cop' = "write"
    /\ UNCHANGED <<ropened, rres, loaded, raw_vars>>
    /\ UNCHANGED <<gen_vars, search, other_vars>>

\* the caller reads the path when nothing was written there, when something
\* else put a file there, or when its dfield_to_file reported the file written
Readable ==
    \/ cop \in {"none", "put"}
    \/ cop = "write" /\ wres = OKAY

\* dfield_from_file(path, &loaded); a file that does not exist cannot be opened
DfieldFromFile ==
    /\ Readable
    /\ \E opened \in BOOLEAN :
         /\ opened => origin # "none"
         /\ ropened' = opened
         /\ IF ~opened
            THEN /\ rres' = ERROR_ERRNO
                 /\ track' = HandleTrack(FALSE, TRUE)
                 /\ UNCHANGED loaded
            ELSE LET r == FromFile(file) IN
                 /\ rres' = r.res
                 /\ track' = FromFileTrack(TRUE, file, r)
                 /\ loaded' = IF r.res = OKAY THEN r.out ELSE loaded
    /\ cop' = "read"
    /\ UNCHANGED <<file, origin, wfield, wres, wopened, raw_vars>>
    /\ UNCHANGED <<gen_vars, search, other_vars>>

\* dfield_data_from_file(path, w, h, &data_out)
DfieldDataFromFile ==
    /\ Readable
    /\ \E w \in RawWidths, h \in RawHeights, opened \in BOOLEAN :
         /\ opened => origin # "none"
         /\ dwidth' = w
         /\ dheight' = h
         /\ dopened' = opened
         /\ IF ~opened
            THEN /\ dres' = ERROR_ERRNO
                 /\ track' = HandleTrack(FALSE, TRUE)
                 /\ UNCHANGED data_out
            ELSE \E r \in DataFromFile(file, w, h) :
                 /\ dres' = r.res
                 /\ track' = DataFromFileTrack(TRUE, w, h, r)
                 /\ data_out' = IF r.stored THEN r.out ELSE data_out
    /\ cop' = "raw"
    /\ UNCHANGED <<file, origin, wfield, wres, wopened, ropened, rres, loaded>>
    /\ UNCHANGED <<gen_vars, search, other_vars>>

\* what the caller's struct and buffer pointer hold ahead of a call when an
\* earlier use left something there
StaleField == [width |-> 1, height |-> 1, data |-> [k \in {0} |-> 1]]
StaleBuffer == [k \in {0} |-> 1]

\* the caller is done with the file and the field (the file is removed); its
\* struct and its pointer are fresh again or keep what they held
CodecRelease ==
    /\ cop \in {"read", "raw", "write"}
    /\ file' = << >>
    /\ origin' = "none"
    /\ cop' = "none"
    /\ wfield' = Unset
    /\ wres' = NoResult
    /\ wopened' = FALSE
    /\ ropened' = FALSE
    /\ rres' = NoResult
    /\ \E stale \in BOOLEAN :
         /\ loaded' = IF stale THEN StaleField ELSE Unset
         /\ data_out' = IF stale THEN StaleBuffer ELSE NoBuffer
    /\ dwidth' = 0
    /\ dheight' = 0
    /\ dopened' = FALSE
    /\ dres' = NoResult
    /\ track' = NoTrack
    /\ UNCHANGED <<gen_vars, search, other_vars>>

CodecInit ==
    /\ file = << >>
    /\ origin = "none"
    /\ cop = "none"
    /\ wfield = Unset
    /\ wres = NoResult
    /\ wopened = FALSE
    /\ ropened = FALSE
    /\ rres = NoResult
    /\ loaded = Unset
    /\ dwidth = 0
    /\ dheight = 0
    /\ dopened = FALSE
    /\ dres = NoResult
    /\ data_out = NoBuffer
    /\ track = NoTrack

(***************************************************************************)
(* int32_t dsq = i * i + j * j (dfield.c:258) for the spreads the check of *)
(* dfield.c:223 accepts and the offsets the loops of dfield.c:240 and 248  *)
(* run through, -spread .. spread.                                         *)
(***************************************************************************)
\* the spreads looked at: the small ones, those around the largest whose
\* 2 * spread * spread is an int32_t, those at the limit of the check
SearchSpreads ==
    (0 .. MaxSpread) \cup {23170, 23171, SpreadLimit - 1, SpreadLimit, SpreadLimit + 1}

\* the offsets looked at: the ends of -spread .. spread, their neighbours, 0
SearchOffsets(sp) ==
    {k \in {-sp, 1 - sp, 0, sp - 1, sp} : -sp <= k /\ k <= sp}

\* whether the int32_t sum a + b of two values that are not negative leaves
\* the range of int32_t
AddOverflows(a, b) == a > INT32_MAX - b

NoSearch == [at |-> "none", spread |-> 0, i |-> 0, j |-> 0, overflow |-> FALSE]

\* a call with this spread passes the checks or returns the error
SearchCall ==
    /\ search.at = "none"
    /\ \E sp \in SearchSpreads :
         search' = [NoSearch EXCEPT
                      !.at = IF Validate(1, 1, 1, 1, sp) = OKAY
                              THEN "accepted" ELSE "rejected",
                      !.spread = sp]
    /\ UNCHANGED <<gen_vars, codec_vars, other_vars>>

\* the loops reach the offsets i, j on a pixel of the other state
SearchDsq ==
    /\ search.at = "accepted"
    /\ \E i \in SearchOffsets(search.spread), j \in SearchOffsets(search.spread) :
         search' = [search EXCEPT !.at = "computed", !.i = i, !.j = j,
                                  !.overflow = AddOverflows(i * i, j * j)]
    /\ UNCHANGED <<gen_vars, codec_vars, other_vars>>

\* the call is over
SearchRelease ==
    /\ search.at \in {"rejected", "computed"}
    /\ search' = NoSearch
    /\ UNCHANGED <<gen_vars, codec_vars, other_vars>>

SearchInit == search = NoSearch

(***************************************************************************)
(* dfield_result_string (dfield.c:36-65).                                  *)
(***************************************************************************)
\* enum dfield_result: the kinds in the order of their values, from 0
ResultKinds ==
    <<OKAY, ERROR_ERRNO, ERROR_READ_SIZE, ERROR_MAGIC, ERROR_BAD_SIZE,
      ERROR_WRITE_SIZE, ERROR_BAD_INPUT_SIZE, ERROR_BAD_OUTPUT_SIZE,
      ERROR_BAD_SPREAD>>
\* the value of a kind
EnumValue(kind) == CHOOSE v \in 0 .. Len(ResultKinds) - 1 : ResultKinds[v + 1] = kind

\* a pointer to a string literal, the pointer strerror returns for errno e,
\* a null pointer, and a pointer that names no string
Literal(text) == [ptr |-> "literal", text |-> text, errno |-> 0]
StrerrorOf(e) == [ptr |-> "strerror", text |-> "", errno |-> e]
NullString == [ptr |-> "null", text |-> "", errno |-> 0]
WildString == [ptr |-> "wild", text |-> "", errno |-> 0]

\* const char * strings[] = { [DFIELD_RESULT_OKAY] = "no error", ... }: an
\* element without an initializer is a null pointer
Strings ==
    [v \in 0 .. Len(ResultKinds) - 1 |->
        CASE ResultKinds[v + 1] = OKAY -> Literal("no error")
          [] ResultKinds[v + 1] = ERROR_READ_SIZE ->
                Literal("number of bytes read didn't match expected")
          [] ResultKinds[v + 1] = ERROR_MAGIC ->
                Literal("magic bytes read didn't match expected")
          [] ResultKinds[v + 1] = ERROR_BAD_SIZE ->
                Literal("size fields contained invalid value(s)")
          [] ResultKinds[v + 1] = ERROR_WRITE_SIZE ->
                Literal("number of bytes written didn't match expected")
          [] ResultKinds[v + 1] = ERROR_BAD_INPUT_SIZE ->
                Literal("input_height or input_width are invalid (n <= 0)")
          [] ResultKinds[v + 1] = ERROR_BAD_OUTPUT_SIZE ->
                Literal("output_height or output_width are invalid (n <= 0)")
          [] ResultKinds[v + 1] = ERROR_BAD_SPREAD ->
                Literal("spread is invalid (n <= 0 or n > 32768)")
          [] OTHER -> NullString]

\* sizeof(strings) / sizeof(*strings): the largest designated index plus one
TableLen == Len(ResultKinds)

\* what strings[index] yields for an index after the table: whatever the
\* memory there holds, read as a pointer
AfterTable == {NullString, WildString, Literal("no error")}

\* the values of errno at the call
Errnos == 0 .. MaxErrno
\* the arguments: every kind, and values below and above them
StringResults == -2 .. TableLen + 2

\* if (result < 0 || result > sizeof(strings) / sizeof(*strings)) return "unknown error";
InTable(result) == ~(result < 0 \/ result > TableLen)

\* dfield_result_string(result) with errno = e: the index used into strings
\* (-1 when none is) and the pointers it can return
ResultString(result, e) ==
    IF ~InTable(result)
    THEN {[index |-> -1, out |-> Literal("unknown error")]}
    ELSE IF result = EnumValue(ERROR_ERRNO)
    THEN {[index |-> -1, out |-> StrerrorOf(e)]}
    ELSE IF result < TableLen
    THEN {[index |-> result, out |-> Strings[result]]}
    ELSE {[index |-> result, out |-> a] : a \in AfterTable}

NoString == [at |-> "none", result |-> 0, errno |-> 0, index |-> -1, out |-> NullString]

\* a caller asks for the description of a result
StringCall ==
    /\ strq.at = "none"
    /\ \E result \in StringResults, e \in Errnos :
         \E r \in ResultString(result, e) :
            strq' = [at |-> "returned", result |-> result, errno |-> e,
                     index |-> r.index, out |-> r.out]
    /\ UNCHANGED <<gen_vars, codec_vars, search, scene_vars, renderer_vars>>

\* the caller is done with the description
StringRelease ==
    /\ strq.at = "returned"
    /\ strq' = NoString
    /\ UNCHANGED <<gen_vars, codec_vars, search, scene_vars, renderer_vars>>

StringInit == strq = NoString

(***************************************************************************)
(* The camera queue (scene.c:33-95).  A waypoint is [id, delta_time]: the  *)
(* id stands for its camera, ids count the calls of enqueue_camera from 1. *)
(* A camera is at a waypoint (AtWaypoint), where it started (StartCamera), *)
(* under way (Between), or has coordinates that are NaN (NotANumber) or    *)
(* infinite (Infinite).  interp is the pair <<camera_tick, delta_time>> of *)
(* its quotient.                                                           *)
(***************************************************************************)
AtWaypoint(id) == [at |-> "waypoint", id |-> id]
StartCamera == [at |-> "start", id |-> 0]
Between == [at |-> "between", id |-> 0]
NotANumber == [at |-> "nan", id |-> 0]
Infinite == [at |-> "inf", id |-> 0]

\* the delta a caller passes to enqueue_camera
Deltas == 0 .. MaxDelta

\* previous + interp * (target - previous) for interp = num / den in float:
\* the target at 1, the previous camera at 0, NaN for 0/0 and for a NaN
\* previous camera, infinite coordinates for num/0
Interpolate(previous, target, num, den) ==
    IF previous = NotANumber THEN NotANumber
    ELSE IF den = 0 THEN (IF num = 0 THEN NotANumber ELSE Infinite)
    ELSE IF num = den THEN AtWaypoint(target)
    ELSE IF num = 0 THEN previous
    ELSE Between

NoStep == [queued |-> FALSE, removed |-> 0, num |-> 0, den |-> 1]

\* void enqueue_camera(scene, camera, delta): a new node after the last one
EnqueueCamera ==
    /\ cam.enqueued < MaxWaypoints
    /\ \E delta \in Deltas :
         cam' = [cam EXCEPT
                    !.queue = Append(@, [id |-> cam.enqueued + 1, delta_time |-> delta]),
                    !.enqueued = @ + 1]
    /\ UNCHANGED <<dfield_vars, renderer_vars>>

\* if (camera_tick == scene->queue->delta_time)
HeadDone(camera_tick, delta_time) == camera_tick = delta_time

\* void soho_step(scene): camera_tick is a size_t, kept below MaxTick here
SohoStep ==
    /\ cam.camera_tick < MaxTick
    /\ IF cam.queue = << >>
       THEN cam' = [cam EXCEPT !.last = NoStep]
       ELSE LET head == Head(cam.queue)
                camera == Interpolate(cam.previous_camera, head.id,
                                      cam.camera_tick, head.delta_time)
                done == HeadDone(cam.camera_tick, head.delta_time)
            IN  cam' = [cam EXCEPT
                    !.camera = camera,
                    !.previous_camera = IF done THEN camera ELSE @,
                    !.queue = IF done THEN Tail(@) ELSE @,
                    !.camera_tick = (IF done THEN 0 ELSE @) + 1,
                    !.age = IF done THEN 0 ELSE @ + 1,
                    !.removed = IF done THEN @ + 1 ELSE @,
                    !.last = [queued |-> TRUE,
                              removed |-> IF done THEN head.id ELSE 0,
                              num |-> cam.camera_tick,
                              den |-> head.delta_time]]
    /\ UNCHANGED <<dfield_vars, renderer_vars>>

\* a scene with an empty queue; the statics of soho_step are zero
SceneInit ==
    cam = [queue |-> << >>, camera_tick |-> 0, camera |-> StartCamera,
           previous_camera |-> StartCamera, age |-> 0, enqueued |-> 0,
           removed |-> 0, last |-> NoStep]

(***************************************************************************)
(* The renderer (renderer.c).  A pointer or handle of struct renderer is   *)
(* "null", "live" (it names an object that exists) or "freed" (it still    *)
(* holds the address or handle of an object that was freed or destroyed).  *)
(* pipeline stands for pipeline, render_pass and layout, formats for       *)
(* chain_details.formats and present_modes, which the code treats alike.   *)
(* A machine m is [r, faults, op, terminated]: the struct, the faults so   *)
(* far, the call of the interface that is running, and whether             *)
(* renderer_terminate has run since the last call of renderer_init began.  *)
(***************************************************************************)
RENDERER_OKAY == "RENDERER_OKAY"
RENDERER_ERROR == "RENDERER_ERROR"

Resources ==
    {"window", "instance", "surface", "device", "formats", "sync",
     "command_pool", "swap_chain", "swap_chain_images",
     "swap_chain_image_views", "pipeline", "framebuffers"}

\* static struct renderer renderer: zero-initialized
NoRenderer ==
    [res |-> [f \in Resources |-> "null"], initialized |-> FALSE,
     glfw_needs_terminate |-> FALSE, needs_recreation |-> FALSE,
     minimized |-> FALSE]

\* Each operator below takes the machine by value: m0 is evaluated once and
\* named m.

\* a free or destroy of, or an access through, a pointer or handle whose
\* object is gone
Fault(m, kind, f) == [m EXCEPT !.faults = @ \cup {<<m.op, kind, f>>}]

\* if (renderer.f) { ... free or destroy ...; } with or without a following
\* renderer.f = NULL
Release(m0, f, nulled) ==
    CHOOSE out \in
        {IF m.r.res[f] = "null" THEN m
         ELSE [(IF m.r.res[f] = "freed" THEN Fault(m, "double free", f) ELSE m)
                  EXCEPT !.r.res[f] = IF nulled THEN "null" ELSE "freed"] :
            m \in {m0}} : TRUE

\* an access through renderer.f (renderer.sync[i], a call on renderer.device)
Use(m0, f) ==
    CHOOSE out \in
        {IF m.r.res[f] = "live" THEN m ELSE Fault(m, "use after free", f) :
            m \in {m0}} : TRUE

\* renderer.f = calloc(...) or a successful vkCreate...(..., &renderer.f)
Make(m0, f) == [m0 EXCEPT !.r.res[f] = "live"]

\* if (renderer.swap_chain) { destroy the image views; free(swap_chain_images);
\* free(swap_chain_image_views); [both = NULL;] vkDestroySwapchainKHR;
\* renderer.swap_chain = NULL; }
ReleaseSwapChain(m0, nulled) ==
    CHOOSE out \in
        {IF m.r.res["swap_chain"] = "null" THEN m
         ELSE Release(Release(Release(m, "swap_chain_images", nulled),
                              "swap_chain_image_views", nulled), "swap_chain", TRUE) :
            m \in {m0}} : TRUE

\* void renderer_terminate(): sync, command_pool and framebuffers keep their
\* value after the free, the arrays of the swap chain too, which are freed
\* under the test of swap_chain
Terminate(m0) ==
    CHOOSE out \in
        {[m EXCEPT !.r.glfw_needs_terminate = FALSE, !.r.initialized = FALSE,
                   !.terminated = TRUE] :
            m \in {Release(Release(Release(Release(Release(
                       ReleaseSwapChain(
                           Release(Release(Release(Release(m0,
                               "sync", FALSE), "command_pool", FALSE),
                               "framebuffers", FALSE), "pipeline", TRUE),
                           FALSE),
                       "formats", TRUE), "device", TRUE), "surface", TRUE),
                       "instance", TRUE), "window", TRUE)}} : TRUE

\* the setup functions in the order renderer_init calls them, and the places
\* where they can fail: "shader" is vkCreateShaderModule in setup_pipeline,
\* "details" is setup_swap_chain_details in renderer_recreate_swap_chain
FirstSteps ==
    <<"glfw", "instance", "surface", "physical_device", "device", "sync",
      "command_pool", "swap_chain">>
LastSteps == <<"swap_chain_image_views", "pipeline", "framebuffers">>
FailPoints ==
    {"none", "shader", "details"} \cup {FirstSteps[i] : i \in DOMAIN FirstSteps}
        \cup {LastSteps[i] : i \in DOMAIN LastSteps}

Step(m, result) == [m |-> m, result |-> result]

\* setup_sync_objects: the array, then its semaphores and fences; a failure
\* returns the error and nothing else
SetupSync(m0, fail) ==
    Step(Make(m0, "sync"), IF fail = "sync" THEN RENDERER_ERROR ELSE RENDERER_OKAY)

\* setup_swap_chain: formats[0] is read; a framebuffer of size zero sets
\* minimized and needs_recreation and returns OKAY with no swap chain
SetupSwapChain(m0, fail, zero) ==
    CHOOSE out \in
        {IF zero
         THEN Step([m EXCEPT !.r.minimized = TRUE, !.r.needs_recreation = TRUE],
                   RENDERER_OKAY)
         ELSE IF fail = "swap_chain" THEN Step(Terminate(m), RENDERER_ERROR)
         ELSE Step(Make(Make(m, "swap_chain"), "swap_chain_images"), RENDERER_OKAY) :
            m \in {Use(m0, "formats")}} : TRUE

\* one setup function; the step named fail fails.  All but setup_sync_objects
\* and setup_swap_chain_details call renderer_terminate() when they fail;
\* after a failed vkCreateShaderModule setup_pipeline calls it and goes on
\* creating objects on renderer.device
Setup(m0, step, fail, zero) ==
    CHOOSE out \in
        {CASE step = "glfw" ->
                IF fail = step
                THEN Step(Terminate([m EXCEPT !.r.glfw_needs_terminate = TRUE,
                                              !.r.res["window"] = "null"]),
                          RENDERER_ERROR)
                ELSE Step([m EXCEPT !.r.glfw_needs_terminate = TRUE,
                                    !.r.res["window"] = "live"], RENDERER_OKAY)
           [] step \in {"instance", "surface", "device", "command_pool"} ->
                IF fail = step THEN Step(Terminate(m), RENDERER_ERROR)
                ELSE Step(Make(m, step), RENDERER_OKAY)
           [] step = "physical_device" ->
                IF fail = step
                THEN Step(Terminate(Make(Release(m, "formats", TRUE), "formats")),
                          RENDERER_ERROR)
                ELSE Step(Make(Release(m, "formats", TRUE), "formats"), RENDERER_OKAY)
           [] step = "details" ->
                Step(Make(Release(m, "formats", TRUE), "formats"),
                     IF fail = step THEN RENDERER_ERROR ELSE RENDERER_OKAY)
           [] step = "sync" -> SetupSync(m, fail)
           [] step = "swap_chain" -> SetupSwapChain(m, fail, zero)
           [] step \in {"swap_chain_image_views", "framebuffers"} ->
                IF fail = step THEN Step(Terminate(Make(m, step)), RENDERER_ERROR)
                ELSE Step(Make(m, step), RENDERER_OKAY)
           [] step = "pipeline" ->
                IF fail = "shader"
                THEN Step(Use(Terminate(m), "device"), RENDERER_ERROR)
                ELSE IF fail = step THEN Step(Terminate(m), RENDERER_ERROR)
                ELSE Step(Make(m, "pipeline"), RENDERER_OKAY) :
            m \in {m0}} : TRUE

\* result = setup_...(); if (result) return result; for the steps from i on
RECURSIVE Setups(_, _, _, _, _)
Setups(m0, steps, i, fail, zero) ==
    IF i > Len(steps) THEN Step(m0, RENDERER_OKAY)
    ELSE CHOOSE out \in
            {IF s.result # RENDERER_OKAY THEN s
             ELSE Setups(s.m, steps, i + 1, fail, zero) :
                s \in {Setup(m0, steps[i], fail, zero)}} : TRUE

\* enum renderer_result renderer_init(config)
InitBody(m0, fail, zero) ==
    CHOOSE out \in
        {IF a.result # RENDERER_OKAY THEN a
         ELSE IF a.m.r.minimized
         THEN Step([a.m EXCEPT !.r.initialized = TRUE, !.r.needs_recreation = FALSE],
                   RENDERER_OKAY)
         ELSE Setups([a.m EXCEPT !.r.initialized = TRUE, !.r.needs_recreation = FALSE],
                     LastSteps, 1, fail, zero) :
            a \in {Setups(m0, FirstSteps, 1, fail, zero)}} : TRUE

\* static enum renderer_result renderer_recreate_swap_chain()
Recreate(m0, fail, zero) ==
    CHOOSE out \in
        {IF c.result # RENDERER_OKAY THEN c
         ELSE IF c.m.r.minimized THEN Step(c.m, RENDERER_OKAY)
         ELSE Setups(c.m, LastSteps \o <<"sync">>, 1, fail, zero) :
            c \in {Setups(
                      Release(
                          ReleaseSwapChain(
                              Release(Release(Release(Use(m0, "device"),
                                  "sync", FALSE), "framebuffers", FALSE),
                                  "pipeline", TRUE),
                              TRUE),
                          "formats", TRUE),
                      <<"details", "swap_chain">>, 1, fail, zero)}} : TRUE

\* the results of vkAcquireNextImageKHR that renderer_draw_frame tells apart
AcquireResults == {"VK_SUCCESS", "VK_ERROR_OUT_OF_DATE_KHR", "VK_ERROR_DEVICE_LOST"}

\* static enum renderer_result renderer_draw_frame(), called with
\* renderer.initialized true: vkWaitForFences and vkAcquireNextImageKHR take
\* their fence and semaphore from renderer.sync, the recording of the
\* command buffer its framebuffer from renderer.framebuffers
DrawFrame(m0, acquired, fail, zero) ==
    CHOOSE out \in
        {IF a.r.needs_recreation \/ acquired = "VK_ERROR_OUT_OF_DATE_KHR"
         THEN \* if (!renderer_recreate_swap_chain()) { needs_recreation = false; ... }
              \* else return RENDERER_ERROR; return RENDERER_OKAY;
              CHOOSE r \in
                  {IF c.result = RENDERER_OKAY
                   THEN Step([c.m EXCEPT !.r.needs_recreation = FALSE], RENDERER_OKAY)
                   ELSE Step(c.m, RENDERER_ERROR) :
                      c \in {Recreate(a, fail, zero)}} : TRUE
         ELSE IF acquired # "VK_SUCCESS" THEN Step(a, RENDERER_ERROR)
         ELSE IF a.r.minimized THEN Step(a, RENDERER_OKAY)
         ELSE Step(Use(Use(a, "sync"), "framebuffers"), RENDERER_OKAY) :
            a \in {Use(m0, "sync")}} : TRUE

NoTrace ==
    [op |-> "none", prev |-> "none", init_result |-> "none", terminated |-> FALSE,
     same |-> TRUE, faults |-> {}, in_loop |-> FALSE, entered |-> FALSE,
     drew |-> FALSE, fb_zero |-> FALSE]

\* the machine a call of the interface starts from
Machine(op) ==
    [r |-> renderer, faults |-> rtrace.faults, op |-> op, terminated |-> rtrace.terminated]

\* after a fault the behaviour of the program is undefined and is not followed
NoFault == rtrace.faults = {}

\* the program calls renderer_init(config)
RendererInit ==
    /\ NoFault /\ ~rtrace.in_loop
    /\ \E fail \in FailPoints \ {"details"}, zero \in BOOLEAN :
         \E s \in {InitBody([Machine("init") EXCEPT !.terminated = FALSE], fail, zero)} :
         /\ renderer' = s.m.r
         /\ rtrace' = [rtrace EXCEPT !.op = "init", !.prev = rtrace.op,
                                     !.faults = s.m.faults,
                                     !.terminated = s.m.terminated,
                                     !.same = (s.m.r = renderer),
                                     !.init_result = s.result]
    /\ UNCHANGED <<dfield_vars, scene_vars>>

\* the program calls renderer_terminate()
RendererTerminate ==
    /\ NoFault /\ ~rtrace.in_loop
    /\ \E m \in {Terminate(Machine("terminate"))} :
       /\ renderer' = m.r
       /\ rtrace' = [rtrace EXCEPT !.op = "terminate", !.prev = rtrace.op,
                                   !.faults = m.faults,
                                   !.terminated = m.terminated,
                                   !.same = (m.r = renderer)]
    /\ UNCHANGED <<dfield_vars, scene_vars>>

\* the program calls renderer_loop(): if (!renderer.initialized) return;
RendererLoop ==
    /\ NoFault /\ ~rtrace.in_loop
    /\ renderer' = renderer
    /\ rtrace' = [rtrace EXCEPT !.op = "loop", !.prev = rtrace.op, !.same = TRUE,
                                 !.in_loop = renderer.initialized,
                                 !.entered = renderer.initialized,
                                 !.drew = FALSE, !.fb_zero = FALSE]
    /\ UNCHANGED <<dfield_vars, scene_vars>>

\* glfwPollEvents() runs framebuffer_resize_callback: the framebuffer has a
\* new size, zero when the window is minimized
FramebufferResize ==
    /\ NoFault /\ rtrace.in_loop
    /\ \E z \in BOOLEAN :
         /\ z # rtrace.fb_zero
         /\ rtrace' = [rtrace EXCEPT !.fb_zero = z]
    /\ renderer' = [renderer EXCEPT !.needs_recreation = TRUE]
    /\ UNCHANGED <<dfield_vars, scene_vars>>

\* one turn of the loop of renderer_loop: renderer_draw_frame(), whose error
\* ends the loop.  The size of the framebuffer is asked of GLFW only where
\* the surface does not give its extent.
LoopFrame ==
    /\ NoFault /\ rtrace.in_loop
    /\ \E acquired \in AcquireResults, fail \in FailPoints,
          zero \in (IF rtrace.fb_zero THEN BOOLEAN ELSE {FALSE}) :
         \E s \in {DrawFrame(Machine("draw"), acquired, fail, zero)} :
         /\ renderer' = s.m.r
         /\ rtrace' = [rtrace EXCEPT !.faults = s.m.faults,
                                     !.terminated = s.m.terminated,
                                     !.drew = TRUE,
                                     !.in_loop = (s.result = RENDERER_OKAY)]
    /\ UNCHANGED <<dfield_vars, scene_vars>>

\* glfwWindowShouldClose(renderer.window): the loop ends, vkDeviceWaitIdle
LoopClose ==
    /\ NoFault /\ rtrace.in_loop
    /\ rtrace' = [rtrace EXCEPT !.in_loop = FALSE]
    /\ renderer' = renderer
    /\ UNCHANGED <<dfield_vars, scene_vars>>

RendererStart == renderer = NoRenderer /\ rtrace = NoTrace

Init == GenInit /\ CodecInit /\ SearchInit /\ StringInit /\ SceneInit /\ RendererStart

Next == GenCall \/ GenRow \/ GenReturn \/ GenRelease

Spec == Init /\ [][Next]_vars

\* the generator called twice with the same arguments
NextRepeat == GenCall \/ GenRow \/ GenReturn \/ GenRepeat \/ GenRelease

SpecRepeat == Init /\ [][NextRepeat]_vars

\* the generator on the call of the documented scenario
NextExample == GenExample \/ GenRow \/ GenReturn \/ GenRelease

SpecExample == Init /\ [][NextExample]_vars

\* the codec
NextCodec ==
    EnvPutFile \/ DfieldToFile \/ DfieldFromFile \/ DfieldDataFromFile \/ CodecRelease

SpecCodec == Init /\ [][NextCodec]_vars

\* the three functions that store through a pointer of the caller, which
\* makes one call at a time; the generator is followed from the state in
\* which the caller's struct and pointer for the file functions are fresh
GenIdle == pc = "idle"
CodecIdle == cop = "none" /\ loaded = Unset /\ data_out = NoBuffer
NextAll ==
    \/ CodecIdle /\ Next
    \/ GenIdle /\ NextCodec

SpecAll == Init /\ [][NextAll]_vars

\* the distance of the neighbourhood search
NextSearch == SearchCall \/ SearchDsq \/ SearchRelease

SpecSearch == Init /\ [][NextSearch]_vars

\* dfield_result_string alone
NextString == StringCall \/ StringRelease

SpecString == Init /\ [][NextString]_vars

\* the camera queue alone
NextCamera == EnqueueCamera \/ SohoStep

SpecCamera == Init /\ [][NextCamera]_vars

\* the renderer alone
NextRenderer ==
    \/ RendererInit \/ RendererTerminate \/ RendererLoop
    \/ FramebufferResize \/ LoopFrame \/ LoopClose

SpecRenderer == Init /\ [][NextRenderer]_vars

(***************************************************************************)
(* The generator run without the pragma: the rows in order.                *)
(***************************************************************************)
\* for (int32_t y = 0; y < output_height; y++) { ... }, from y on
RECURSIVE YLoop(_, _)
YLoop(m, y) ==
    IF y >= output_height THEN m ELSE YLoop(XLoop(m, y, 0), y + 1)

\* the field the sequential loops leave in a fresh buffer
SequentialField ==
    YLoop([field |-> [k \in Cells |-> Uninit], writes |-> [k \in Cells |-> 0],
           writer |-> [k \in Cells |-> -1],
           sampled |-> [k \in Cells |-> <<-1, -1>>]], 0).field

(***************************************************************************)
(* Claims about dfield_generate.                                           *)
(***************************************************************************)
\* the call has returned OKAY
Returned == pc = "done" /\ gres = OKAY
\* the cells that have been assigned
Assigned == {k \in DOMAIN writes : writes[k] > 0}
\* the pixel a cell belongs to
XOf(k) == k % output_width
YOf(k) == k \div output_width
\* the input grid is uniform
Uniform == (\A k \in DOMAIN data : data[k] = 0) \/ (\A k \in DOMAIN data : data[k] # 0)

\* C2: whenever dfield_generate has returned OKAY, every byte of the field it
\* stored lies in -127 .. 127; -128 is never stored.
C2_ByteRange ==
    Returned => \A k \in DOMAIN dfield_out.data :
                    dfield_out.data[k] >= -127 /\ dfield_out.data[k] <= 127

\* C2 witness: a returned field holding a value the clamp cut to -127 (a white
\* pixel with no black pixel in its window, spread 1: lrint gives -256).
C2_Witness ==
    /\ Returned
    /\ spread = 1
    /\ \E k \in DOMAIN dfield_out.data :
          /\ dfield_out.data[k] = -127
          /\ LrintResult(State(XOf(k), YOf(k)),
                         Minimum([x_in |-> XIn(XOf(k)), y_in |-> YIn(YOf(k)),
                                  state |-> State(XOf(k), YOf(k))])) < -128

\* C3: the checks run in a fixed order and the first that fails decides: a bad
\* input size gives BAD_INPUT_SIZE whatever the rest, else a bad output size
\* gives BAD_OUTPUT_SIZE whatever the spread, else a spread outside
\* 0 .. 32768 gives BAD_SPREAD.
C3_CheckOrder ==
    pc = "done" =>
        /\ (input_width <= 0 \/ input_height <= 0) => gres = ERROR_BAD_INPUT_SIZE
        /\ (input_width > 0 /\ input_height > 0
                /\ (output_width <= 0 \/ output_height <= 0))
              => gres = ERROR_BAD_OUTPUT_SIZE
        /\ (input_width > 0 /\ input_height > 0 /\ output_width > 0
                /\ output_height > 0 /\ (spread < 0 \/ spread > 32768))
              => gres = ERROR_BAD_SPREAD
        /\ (input_width = 0 /\ input_height = 10 /\ output_width = 10
                /\ output_height = 10 /\ spread = 1)
              => gres = ERROR_BAD_INPUT_SIZE
        /\ (input_width = 10 /\ input_height = 10 /\ output_width = 10
                /\ output_height = 10 /\ spread = 40000)
              => gres = ERROR_BAD_SPREAD

\* C3 witness: a call in which all three checks would fail has returned the
\* first one's error.
C3_Witness ==
    /\ pc = "done"
    /\ input_width <= 0
    /\ output_height <= 0
    /\ spread > SpreadLimit
    /\ gres = ERROR_BAD_INPUT_SIZE

\* C4: with all four sizes positive and 0 <= spread <= 32768 the call returns
\* OKAY, and the field it stores has the output's width and height and exactly
\* output_width * output_height cells, each assigned exactly once.
C4_FullField ==
    /\ (pc = "done" /\ input_width > 0 /\ input_height > 0 /\ output_width > 0
            /\ output_height > 0 /\ spread >= 0 /\ spread <= 32768)
          => /\ gres = OKAY
             /\ dfield_out.width = output_width
             /\ dfield_out.height = output_height
             /\ DOMAIN dfield_out.data = 0 .. output_width * output_height - 1
             /\ \A k \in DOMAIN dfield_out.data :
                    writes[k] = 1 /\ dfield_out.data[k] # Uninit
    /\ (pc = "running" /\ rows_done = Rows) => \A k \in Cells : writes[k] = 1

\* C4 witness: a returned field of more than one row and more than one column.
C4_Witness ==
    /\ Returned
    /\ dfield_out.width = MaxOutW
    /\ dfield_out.height = MaxOutH
    /\ \A k \in 0 .. MaxOutW * MaxOutH - 1 : writes[k] = 1

\* every sample of the call is read inside the input buffer
SamplesInside ==
    BeyondIndices(input_width, input_height, output_width, output_height) = {}

\* C5 (as claimed): for a uniform input grid, every accepted spread and every
\* output size, every output pixel has magnitude exactly 127.  Stated for the
\* calls of the claim that neither divide by zero nor sample outside the
\* buffer, where the outcome is the same on every build.
C5_UniformSaturates ==
    (Returned /\ Uniform /\ spread >= 1 /\ SamplesInside) =>
        \A k \in DOMAIN dfield_out.data :
            dfield_out.data[k] = 127 \/ dfield_out.data[k] = -127

\* C6 (as claimed): an output pixel whose sampled byte is nonzero gets a value
\* <= 0 and one whose sampled byte is zero gets a value >= 0, for every input
\* grid and accepted spread.
C6_SignConvention ==
    Returned =>
        \A k \in DOMAIN dfield_out.data :
            IF State(XOf(k), YOf(k))
            THEN dfield_out.data[k] <= 0
            ELSE dfield_out.data[k] >= 0

\* C7: when the output has the size of the input, the sample coordinate of
\* every output pixel (x, y) is (x, y) and its state is that of input pixel
\* (x, y).
C7_IdentityResize ==
    (output_width = input_width /\ output_height = input_height) =>
        \A k \in Assigned :
            /\ sampled[k] = <<XOf(k), YOf(k)>>
            /\ SampleIndex(XOf(k), YOf(k)) = k
            /\ State(XOf(k), YOf(k)) = (data[k] # 0)

\* C7 witness: a 2 x 2 grid generated at 2 x 2, every pixel sampled.
C7_Witness ==
    /\ Returned
    /\ input_width = 2 /\ input_height = 2
    /\ output_width = 2 /\ output_height = 2
    /\ Assigned = 0 .. 3
    /\ sampled[3] = <<1, 1>>

\* C8 (as claimed): a second call with the same grid, sizes and spread returns
\* the same result and, on success, the same field.  Stated for the calls of
\* the claim that do not divide by zero.
C8_Deterministic ==
    (pc = "done" /\ first # NoFirst /\ spread # 0) =>
        /\ gres = first.res
        /\ gres = OKAY => dfield_out = first.out

\* C9, the steps: while the loop runs the input grid is not written, and an
\* iteration assigns only cells of its own row, each for the first time.
C9_RowStep ==
    pc = "running" =>
        /\ data' = data
        /\ \A k \in DOMAIN writes :
              writes'[k] # writes[k] =>
                  /\ YOf(k) \in rows_done' \ rows_done
                  /\ writes'[k] = 1
                  /\ writer'[k] = YOf(k)

\* C9, the states: no cell is assigned twice or by another row's iteration,
\* and the returned field is the one the rows computed in order give.
C9_RowState ==
    /\ pc = "running" => \A k \in Assigned : writes[k] = 1 /\ writer[k] = YOf(k)
    /\ Returned => dfield_out.data = SequentialField

\* C9: with the rows computed by concurrent workers in any order, each worker
\* writes only the cells of its own rows, no cell is written twice, the input
\* grid is only read, and the final field equals the sequential one.
C9_ParallelRows == []C9_RowState /\ [][C9_RowStep]_vars

\* C9 witness: the last of two rows has been computed before the first, and
\* the two rows are to hold different values.
C9_Witness ==
    /\ pc = "running"
    /\ output_height = 2
    /\ output_width = 2
    /\ rows_done = {1}
    /\ Assigned = {2, 3}
    /\ SequentialField[0] # SequentialField[2]

(***************************************************************************)
(* Claims about the codec.                                                 *)
(***************************************************************************)
\* dfield_from_file has run on a file it could open
ReadOpened == cop = "read" /\ ropened

\* C1 (as claimed): when dfield_to_file has returned OKAY for a field of
\* positive width and height and all its bytes are in the file, a following
\* dfield_from_file of the same path returns OKAY and yields that width,
\* height and data.
C1_RoundTrip ==
    (/\ ReadOpened /\ origin = "to_file" /\ wres = OKAY
     /\ Len(file) = SizeofMagic + SizeofSize + wfield.width * wfield.height) =>
        /\ rres = OKAY
        /\ loaded.width = wfield.width
        /\ loaded.height = wfield.height
        /\ loaded.data = wfield.data

\* C10: an opened file of at least two bytes whose first two bytes are not
\* 'D', 'F' (either one differs) gives the bad magic error whatever follows
\* them; a file that starts with 'D', 'F' never gives it.
C10_BadMagic ==
    (ReadOpened /\ Len(file) >= 2) =>
        /\ (file[1] # 68 \/ file[2] # 70) => rres = ERROR_MAGIC
        /\ (file[1] = 68 /\ file[2] = 70) => rres # ERROR_MAGIC

\* C10 witness: a file with a whole header and data, whose first byte is 'D'
\* and whose second is not 'F', has been read and gave the bad magic error.
C10_Witness ==
    /\ ReadOpened
    /\ Len(file) > SizeofMagic + SizeofSize
    /\ file[1] = 68
    /\ file[2] # 70
    /\ rres = ERROR_MAGIC

(***************************************************************************)
(* The file functions: truncated files, sizes, the layout written, the     *)
(* results of a write, the assertion, the caller's locations, raw reads.   *)
(***************************************************************************)
\* the file starts with the magic
HasMagic == Len(file) >= SizeofMagic /\ file[1] = Magic[1] /\ file[2] = Magic[2]
\* the file holds the magic and the 8 bytes of the sizes
HasHeader == HasMagic /\ Len(file) >= SizeofMagic + SizeofSize
\* the width and height in the header of the file
FileWidth == Int32Of(SubSeq(file, SizeofMagic + 1, SizeofMagic + SizeofInt32))
FileHeight ==
    Int32Of(SubSeq(file, SizeofMagic + SizeofInt32 + 1, SizeofMagic + SizeofSize))
\* the number of bytes after the header
FileDataLen == Len(file) - (SizeofMagic + SizeofSize)

\* C11: dfield_from_file on a file it could open returns the read size error
\* when the file ends inside the magic, when it starts with the magic and
\* ends inside the 8 bytes of the sizes, and when it has the magic, positive
\* sizes and fewer than width * height bytes after them.
C11_Truncated ==
    ReadOpened =>
        /\ Len(file) < SizeofMagic => rres = ERROR_READ_SIZE
        /\ (HasMagic /\ ~HasHeader) => rres = ERROR_READ_SIZE
        /\ (HasHeader /\ FileWidth > 0 /\ FileHeight > 0
               /\ FileDataLen < FileWidth * FileHeight) => rres = ERROR_READ_SIZE

\* C11 witness: a file with the magic, the sizes 2 and 1 and one data byte
\* has been read and gave the read size error.
C11_Witness ==
    /\ ReadOpened
    /\ HasHeader
    /\ FileWidth = 2 /\ FileHeight = 1
    /\ FileDataLen = 1
    /\ rres = ERROR_READ_SIZE

\* C12 (as claimed): dfield_from_file on a file that has the magic and the 8
\* bytes of the sizes, one of them not positive, returns the bad size error.
C12_BadSize ==
    (ReadOpened /\ HasHeader /\ (FileWidth <= 0 \/ FileHeight <= 0)) =>
        rres = ERROR_BAD_SIZE

\* the bytes of the file of a field: magic, width, height, data
Layout(f) == Magic \o Int32Bytes(f.width) \o Int32Bytes(f.height) \o DataBytes(f)

\* C13 (as claimed): when dfield_to_file has returned OKAY the file is the
\* magic, the 4 bytes of the width, the 4 bytes of the height and the
\* width * height data bytes in order, 10 + width * height bytes in all.
C13_FileLayout ==
    (cop = "write" /\ wres = OKAY) =>
        /\ file = Layout(wfield)
        /\ Len(file) = 10 + wfield.width * wfield.height

\* C14 (as claimed): dfield_to_file on a field of positive sizes returns the
\* errno error exactly when the file could not be opened, the write size
\* error exactly when it was opened and fewer than 10 + width * height bytes
\* were written, and OKAY only when they all were.
C14_WriteResults ==
    (cop = "write" /\ AssertHolds(wfield)) =>
        LET all == SizeofMagic + SizeofSize + wfield.width * wfield.height IN
        /\ (wres = ERROR_ERRNO) = ~wopened
        /\ (wres = ERROR_WRITE_SIZE) = (wopened /\ Len(file) < all)
        /\ (wres = OKAY) => (wopened /\ Len(file) = all)

\* C15: a step of dfield_to_file with a field whose width or height is not
\* positive ends in the failed assertion, returns nothing, and leaves the
\* file as it was: not created where there was none, not truncated where
\* there was one.
C15_AssertStep ==
    (cop' = "write" /\ ~(wfield'.width > 0 /\ wfield'.height > 0)) =>
        /\ wres' = ABORT
        /\ ~wopened'
        /\ file' = file
        /\ origin' = origin

C15_AssertFirst == [][C15_AssertStep]_vars

\* C15 witness: dfield_to_file has aborted on a field of height 0 over a
\* file that an earlier call wrote, and the file still holds its 11 bytes.
C15_Witness ==
    /\ cop = "write"
    /\ wres = ABORT
    /\ wfield.width > 0 /\ wfield.height = 0
    /\ origin = "to_file"
    /\ Len(file) = SizeofMagic + SizeofSize + 1

\* C16: a step in which dfield_generate, dfield_from_file or
\* dfield_data_from_file ends with a result other than OKAY leaves the
\* caller's struct, respectively buffer pointer, as it was.
C16_FrameStep ==
    /\ (pc # "done" /\ pc' = "done" /\ gres' # OKAY) => dfield_out' = dfield_out
    /\ (cop' = "read" /\ rres' # OKAY) => loaded' = loaded
    /\ (cop' = "raw" /\ dres' # OKAY) => data_out' = data_out

C16_Frame == [][C16_FrameStep]_vars

\* C16 witness: dfield_data_from_file has returned the read size error on an
\* opened file and the caller's pointer still holds what it held before.
C16_Witness ==
    /\ cop = "raw"
    /\ dopened
    /\ dres = ERROR_READ_SIZE
    /\ dwidth * dheight > Len(file)
    /\ Len(file) > 0
    /\ data_out = StaleBuffer

RoundHalfAway(n, d) == (2 * n + d) \div (2 * d)

\* C18 (as claimed): the sample coordinates of output pixel (x, y) are
\* x * input_width / output_width and y * input_height / output_height
\* rounded to the nearest integer, an exact half away from zero.
C18_HalfAway ==
    \A k \in Assigned :
        sampled[k] = <<RoundHalfAway(XOf(k) * input_width, output_width),
                       RoundHalfAway(YOf(k) * input_height, output_height)>>

\* c is n / d rounded to the nearest integer, an exact half to the even one
NearestEven(c, n, d) ==
    LET twice == 2 * (n - c * d)            \* 2 * (n / d - c) * d
    IN  /\ -d <= twice /\ twice <= d
        /\ (twice = d \/ twice = -d) => c % 2 = 0

\* C18 (amended): the sample coordinates are those quotients rounded to the
\* nearest integer, an exact half to the even integer.
C18_HalfEven ==
    \A k \in Assigned :
        /\ NearestEven(sampled[k][1], XOf(k) * input_width, output_width)
        /\ NearestEven(sampled[k][2], YOf(k) * input_height, output_height)

\* C18 witness: output pixel (1, 1) of a 2 x 2 field made from a 3 x 1 grid
\* has sampled at (1.5, 0.5), which gave (2, 0).
C18_Witness ==
    /\ Returned
    /\ input_width = 3 /\ input_height = 1
    /\ output_width = 2 /\ output_height = 2
    /\ Assigned = Cells
    /\ sampled[3] = <<2, 0>>

\* C19 (as claimed): for a spread that the check accepts and offsets i, j of
\* -spread .. spread, i * i + j * j does not leave the range of int32_t.
C19_NoOverflow ==
    search.at = "computed" =>
        /\ ~search.overflow
        /\ search.i * search.i <= INT32_MAX - search.j * search.j

\* the value stored for a pixel whose quotient is +inf (a black sample) or
\* -inf (a white sample)
InfinityValue(state) == Clamp(IF state THEN lrint_oor.neg ELSE lrint_oor.pos)

Context(k) ==
    [x_in |-> XIn(XOf(k)), y_in |-> YIn(YOf(k)), state |-> State(XOf(k), YOf(k))]

\* the sample of the pixel of cell k lies inside the input grid
SampleInside(k) ==
    /\ 0 <= XIn(XOf(k)) /\ XIn(XOf(k)) < input_width
    /\ 0 <= YIn(YOf(k)) /\ YIn(YOf(k)) < input_height

\* the offsets <<i, j>> of the window of context c that name an input pixel
\* inside the grid whose state differs from c.state
OppositeOffsets(c) ==
    {o \in (-spread .. spread) \X (-spread .. spread) :
        /\ 0 <= c.y_in + o[1] /\ c.y_in + o[1] < input_height
        /\ 0 <= c.x_in + o[2] /\ c.x_in + o[2] < input_width
        /\ (data[(c.y_in + o[1]) * input_width + c.x_in + o[2]] # 0) # c.state}

\* the least i * i + j * j over those offsets, INT32_MAX when there is none
LeastDistance(c) ==
    LET dsqs == {o[1] * o[1] + o[2] * o[2] : o \in OppositeOffsets(c)}
    IN  IF dsqs = {} THEN INT32_MAX
        ELSE CHOOSE m \in dsqs : \A n \in dsqs : m <= n

\* C25: for every output pixel whose sample lies inside the grid, the minimum
\* the two loops compute (skipping an offset above or left of the grid,
\* stopping at one below or right of it) is the least i * i + j * j over the
\* offsets of the window that name an in-grid pixel of the other state, and
\* INT32_MAX when there is no such offset.
C25_WindowMinimum ==
    Returned =>
        \A k \in Cells :
            SampleInside(k) => Minimum(Context(k)) = LeastDistance(Context(k))

\* C25 witness: a call has returned in which one pixel sampled the first row
\* (the offsets above it are skipped) and found the other state at a distance
\* below INT32_MAX, and another pixel found none.
C25_Witness ==
    /\ Returned
    /\ spread >= 1
    /\ \E k \in Cells :
          /\ SampleInside(k)
          /\ YIn(YOf(k)) = 0
          /\ OppositeOffsets(Context(k)) # {}
          /\ Minimum(Context(k)) < INT32_MAX
    /\ \E k \in Cells :
          /\ SampleInside(k)
          /\ Minimum(Context(k)) = INT32_MAX

\* C26: for spread >= 1, an output pixel whose window holds an in-grid pixel
\* of the other state has the value 0 (its minimum is at most 2 * spread^2,
\* and the divisor squared is DivisorSq * spread^2), and a pixel with a
\* nonzero value has no such pixel in its window.
C26_InWindowIsZero ==
    (Returned /\ spread >= 1) =>
        \A k \in Cells :
            /\ OppositeOffsets(Context(k)) # {} =>
                  /\ Minimum(Context(k)) <= 2 * spread * spread
                  /\ dfield_out.data[k] = 0
            /\ dfield_out.data[k] # 0 => OppositeOffsets(Context(k)) = {}

\* C26 witness: a field generated with spread >= 1 from a grid that is not
\* uniform holds a 0 at a pixel with the other state in its window and a
\* nonzero value at a pixel without.
C26_Witness ==
    /\ Returned
    /\ spread >= 1
    /\ ~Uniform
    /\ \E k \in Cells :
          OppositeOffsets(Context(k)) # {} /\ dfield_out.data[k] = 0
    /\ \E k \in Cells :
          OppositeOffsets(Context(k)) = {} /\ dfield_out.data[k] # 0

\* C27 (as claimed): for positive sizes, the source coordinates of every
\* output pixel satisfy 0 <= x_in < input_width and 0 <= y_in < input_height,
\* so the sample is read at an index of [0, input_width * input_height).
C27_SamplesInGrid ==
    \A k \in Assigned :
        /\ 0 <= sampled[k][1] /\ sampled[k][1] < input_width
        /\ 0 <= sampled[k][2] /\ sampled[k][2] < input_height
        /\ sampled[k][2] * input_width + sampled[k][1] < InputLen

(***************************************************************************)
(* The documented scenario: the 2 x 2 grid [[0, 0], [0, 255]] at 4 x 4,    *)
(* spread 2.                                                               *)
(***************************************************************************)
\* the sign of a value
Sign(v) == IF v < 0 THEN -1 ELSE IF v > 0 THEN 1 ELSE 0
\* the magnitude of a value
Abs(v) == IF v < 0 THEN -v ELSE v
\* the pixels of the row (along = 1) or the column (along = 2) of cell k whose
\* state differs from that of cell k, and the distance of cell k to the
\* nearest of them (0 when there is none)
AcrossOnLine(k, along) ==
    {n \in Cells :
        /\ IF along = 1 THEN YOf(n) = YOf(k) ELSE XOf(n) = XOf(k)
        /\ State(XOf(n), YOf(n)) # State(XOf(k), YOf(k))}
BoundaryDistance(k, along) ==
    LET ds == {Abs(XOf(n) - XOf(k)) + Abs(YOf(n) - YOf(k)) : n \in AcrossOnLine(k, along)}
    IN  IF ds = {} THEN 0 ELSE CHOOSE d \in ds : \A e \in ds : d <= e

\* C21 (as claimed): in the scenario every sample lies inside the 2 x 2 grid,
\* two output pixels have the same sign exactly when they map to input cells
\* of the same state, along every row and column the magnitude does not
\* decrease with the distance from the pixels of the other state, and of two
\* pixels of the same state the one with the larger minimum squared distance
\* does not have the smaller magnitude.
C21_Scenario ==
    (Returned /\ data = ExampleCall.data /\ output_width = ExampleCall.ow) =>
        /\ \A k \in Cells : SampleInside(k)
        /\ \A k \in Cells, n \in Cells :
              (State(XOf(k), YOf(k)) = State(XOf(n), YOf(n)))
                  <=> (Sign(dfield_out.data[k]) = Sign(dfield_out.data[n]))
        /\ \A along \in {1, 2} : \A k \in Cells, n \in Cells :
              (/\ IF along = 1 THEN YOf(n) = YOf(k) ELSE XOf(n) = XOf(k)
               /\ State(XOf(k), YOf(k)) = State(XOf(n), YOf(n))
               /\ BoundaryDistance(k, along) >= BoundaryDistance(n, along)) =>
                  Abs(dfield_out.data[k]) >= Abs(dfield_out.data[n])
        /\ \A k \in Cells, n \in Cells :
              (/\ State(XOf(k), YOf(k)) = State(XOf(n), YOf(n))
               /\ Minimum(Context(k)) >= Minimum(Context(n))) =>
                  Abs(dfield_out.data[k]) >= Abs(dfield_out.data[n])

(***************************************************************************)
(* The descriptions of the results, the handles and buffers of the codec.  *)
(***************************************************************************)
\* C22 (as claimed): dfield_result_string returns a description, not a null
\* pointer, for every defined kind, distinct ones for distinct kinds other
\* than ERRNO, and for every value outside the kinds "unknown error",
\* without indexing outside the table of strings.
C22_ResultString ==
    strq.at = "returned" =>
        /\ strq.result \in 0 .. Len(ResultKinds) - 1 =>
              strq.out.ptr \in {"literal", "strerror"}
        /\ \A a \in DOMAIN Strings, b \in DOMAIN Strings :
              (a # b /\ a # EnumValue(ERROR_ERRNO) /\ b # EnumValue(ERROR_ERRNO)) =>
                  Strings[a] # Strings[b]
        /\ strq.result \notin 0 .. Len(ResultKinds) - 1 =>
              strq.out = Literal("unknown error")
        /\ strq.index < TableLen

\* C28 (as claimed): on every return path of dfield_from_file,
\* dfield_data_from_file and dfield_to_file the handle opened is closed
\* exactly once, and a buffer allocated is handed to the caller with OKAY or
\* freed before the error is returned.
C28_NoLeak ==
    (/\ cop \in {"read", "raw", "write"}
     /\ ABORT \notin {wres, dres}) =>
        /\ track.fclose = track.fopen
        /\ track.malloc = track.free + track.handed
        /\ track.handed = 1 => OKAY \in {rres, dres}

(***************************************************************************)
(* The camera queue.                                                       *)
(***************************************************************************)
\* C29 (as claimed): a waypoint with delta_time d at the head of the queue
\* is removed after at most d + 1 further calls of soho_step (it has not
\* been the head for d + 1 calls and is still there), the step that removes
\* it has the interpolation factor 1 and leaves the camera at the waypoint,
\* and waypoints are removed in the order of their enqueueing; for every
\* d >= 0.
C29_CameraQueue ==
    /\ cam.queue # << >> => cam.age < Head(cam.queue).delta_time + 1
    /\ cam.last.removed # 0 =>
          /\ cam.last.den # 0 /\ cam.last.num = cam.last.den
          /\ cam.camera = AtWaypoint(cam.last.removed)
          /\ cam.last.removed = cam.removed

(***************************************************************************)
(* The renderer.                                                           *)
(***************************************************************************)
\* the resources the claims name
Tracked ==
    {"sync", "framebuffers", "command_pool", "swap_chain_images",
     "swap_chain_image_views", "swap_chain", "device", "instance", "window"}

\* C23 (as claimed): in every sequence of renderer_init (succeeding or
\* failing at any step) and renderer_terminate calls, no resource is freed
\* or destroyed twice or used after it was freed, and the second of two
\* consecutive calls of renderer_terminate changes nothing.
C23_TerminateIdempotent ==
    /\ \A f \in rtrace.faults : ~(f[1] \in {"init", "terminate"} /\ f[3] \in Tracked)
    /\ (rtrace.op = "terminate" /\ rtrace.prev = "terminate") => rtrace.same

\* C24 (as claimed): renderer.initialized is true exactly when the most
\* recent renderer_init returned RENDERER_OKAY and renderer_terminate has
\* not run since, and renderer_loop draws only when it found it true.
C24_InitializedFlag ==
    NoFault =>
        /\ renderer.initialized <=>
              (rtrace.init_result = RENDERER_OKAY /\ ~rtrace.terminated)
        /\ rtrace.init_result = RENDERER_ERROR /\ rtrace.op = "init" =>
              ~renderer.initialized
        /\ rtrace.drew => rtrace.entered

\* C30 (as claimed): after renderer_init returned OKAY, whatever frames,
\* resizes and recreations of the swap chain follow, renderer_draw_frame
\* does not use renderer.sync or renderer.framebuffers while they name a
\* freed array.
C30_LiveArrays ==
    \A f \in rtrace.faults :
        ~(f[1] = "draw" /\ f[2] = "use after free" /\ f[3] \in {"sync", "framebuffers"})

====
